---- MODULE Spec2Model ----
(***************************************************************************)
(* The two binaries of the repository as one state machine.  A behaviour   *)
(* runs one of them:                                                       *)
(*   demo/simd-bitpacking-rust/src/main.rs   the bit-packing demonstration *)
(*   code/src/bin/double_free.rs             the aliased-Box demonstration *)
(*                                                                         *)
(* Machine integers are modelled as the set of their one-bits: a u64 is a  *)
(* subset of 0..63 and a u32 a subset of 0..31.  Bitwise OR is union, AND  *)
(* is intersection, and a shift moves every element and drops the bits     *)
(* that leave the word, which keeps each integer at its width.             *)
(***************************************************************************)
EXTENDS Integers, FiniteSets, Sequences, TLC

VARIABLES
    build,       \* "debug" (overflow checks on) or "release" (shifts wrap)
    values,      \* main.rs: values: [u32; 8]
    bit_width,   \* main.rs: bit_width
    packed,      \* main.rs: packed: u64
    mask,        \* main.rs: mask: u64
    unpacked,    \* main.rs: unpacked: [u32; 8]
    i,           \* main.rs: the index of the running for loop
    pc,          \* main.rs: position in main ("off" when the other binary runs)
    panic,       \* main.rs: the panic that ended main, or "none"
    dfpc,        \* double_free.rs: position in main ("off" when not run)
    heap,        \* double_free.rs: state of the one allocation of Box::new
    ptr,         \* double_free.rs: ptr / raw.a, the raw pointer
    handles,     \* double_free.rs: task, notified -> the pointer each holds
    boxes,       \* double_free.rs: cell, cell2, cell3, cell4 -> the pointer each owns
    frees,       \* double_free.rs: the owners that deallocated, in order
    stale,       \* double_free.rs: the owners whose drop acted on freed memory
    out          \* double_free.rs: the lines printed by the Drop impls

bpvars == <<build, values, bit_width, packed, mask, unpacked, i, pc, panic>>
dfvars == <<dfpc, heap, ptr, handles, boxes, frees, stale, out>>
vars == <<build, values, bit_width, packed, mask, unpacked, i, pc, panic,
          dfpc, heap, ptr, handles, boxes, frees, stale, out>>

----------------------------------------------------------------------------
(* Program constants of main.rs *)

WORD_SIZE == 64
VALUE_WIDTH == 32
N == 8
\* A width one bit wider than the block needs
bit_width_wider == 4 + 1

bit_width_lit == 4
values_lit == <<3, 15, 0, 7, 1, 12, 4, 9>>

(* Bound of the model: widths 0..MaxWidth are tried, and WORD_SIZE itself *)
MaxWidth == 9

----------------------------------------------------------------------------
(* Machine integers *)

RECURSIVE BitsFrom(_, _)
BitsFrom(n, b) ==
    IF n = 0 THEN {}
    ELSE (IF n % 2 = 1 THEN {b} ELSE {}) \cup BitsFrom(n \div 2, b + 1)

\* An integer literal as a machine integer
U(n) == BitsFrom(n, 0)

Zero == {}

\* `v as u64` of a u32: zero extension
AsU64(v) == {b \in 0..(WORD_SIZE - 1) : b \in v}

\* `x as u32` of a u64: truncation to the low 32 bits
AsU32(x) == {b \in 0..(VALUE_WIDTH - 1) : b \in x}

BitOr(x, y) == x \cup y

BitAnd(x, y) == x \cap y

\* A shift amount the overflow check of a debug build rejects
ShiftOverflows(s) == s >= WORD_SIZE

\* u64 << s as the hardware does it: the amount is taken modulo 64 and the
\* bits shifted past bit 63 are lost
Shl(x, s) == {b + (s % WORD_SIZE) : b \in x} \cap (0..(WORD_SIZE - 1))

\* u64 >> s, likewise
Shr(x, s) == {b - (s % WORD_SIZE) : b \in {c \in x : c >= s % WORD_SIZE}}

\* x - 1 on u64 (wrapping; 1 << k is never zero, so it never wraps here)
Dec(x) ==
    IF x = {} THEN 0..(WORD_SIZE - 1)
    ELSE LET low == CHOOSE b \in x : \A c \in x : b <= c
         IN  (x \ {low}) \cup (0..(low - 1))

\* The values laid out from the top of the block down (last value lowest)
BitCursorReversed(k, w) == (N - 1 - k) * w

\* The cursor advanced before the value is written instead of after
BitCursorNext(k, w) == (k + 1) * w

\* i * bit_width: the bit position of value i
BitCursor(k, w) == k * w

----------------------------------------------------------------------------
(* Inputs *)

Builds == {"debug", "release"}

Widths == (0..MaxWidth) \cup {WORD_SIZE}

RefValues == [k \in 0..(N - 1) |-> U(values_lit[k + 1])]

Vals == {U(0), U(1), U(15), U(16), U(255), U(511)}

Blocks ==
    {RefValues} \cup
    {[k \in 0..(N - 1) |-> IF k = p THEN a ELSE c] :
        p \in 0..(N - 1), a \in Vals, c \in Vals}

Zeros == [k \in 0..(N - 1) |-> Zero]

----------------------------------------------------------------------------
(* demo/simd-bitpacking-rust/src/main.rs *)

InitBitpack ==
    /\ build \in Builds
    /\ values \in Blocks
    /\ bit_width \in Widths
    /\ packed = Zero
    /\ mask = Zero
    /\ unpacked = Zeros
    /\ i = 0
    /\ pc = "pack"
    /\ panic = "none"

\* One iteration of the packing loop
Pack ==
    /\ pc = "pack"
    /\ i < N
    /\ LET s == BitCursor(i, bit_width)
       IN  IF ShiftOverflows(s) /\ build = "debug"
           THEN /\ pc' = "panic"
                /\ panic' = "shl_overflow"
                /\ UNCHANGED <<packed, i>>
           ELSE /\ packed' = BitOr(packed, Shl(AsU64(values[i]), s))
                /\ i' = i + 1
                /\ pc' = IF i + 1 = N THEN "mask" ELSE "pack"
                /\ UNCHANGED panic
    /\ UNCHANGED <<build, values, bit_width, mask, unpacked>>
    /\ UNCHANGED dfvars

\* let mut unpacked = [0u32; 8]; let mask = (1 << bit_width) - 1;
MakeMask ==
    /\ pc = "mask"
    /\ IF ShiftOverflows(bit_width) /\ build = "debug"
       THEN /\ pc' = "panic"
            /\ panic' = "shl_overflow"
            /\ UNCHANGED <<mask, unpacked, i>>
       ELSE /\ mask' = Dec(Shl(U(1), bit_width))
            /\ unpacked' = Zeros
            /\ i' = 0
            /\ pc' = "unpack"
            /\ UNCHANGED panic
    /\ UNCHANGED <<build, values, bit_width, packed>>
    /\ UNCHANGED dfvars

\* One iteration of the unpacking loop
Unpack ==
    /\ pc = "unpack"
    /\ i < N
    /\ LET s == BitCursor(i, bit_width)
       IN  IF ShiftOverflows(s) /\ build = "debug"
           THEN /\ pc' = "panic"
                /\ panic' = "shr_overflow"
                /\ UNCHANGED <<unpacked, i>>
           ELSE /\ unpacked' =
                      [unpacked EXCEPT ![i] = AsU32(BitAnd(Shr(packed, s), mask))]
                /\ i' = i + 1
                /\ pc' = IF i + 1 = N THEN "assert" ELSE "unpack"
                /\ UNCHANGED panic
    /\ UNCHANGED <<build, values, bit_width, packed, mask>>
    /\ UNCHANGED dfvars

\* assert_eq!(values, unpacked);
AssertEq ==
    /\ pc = "assert"
    /\ IF values = unpacked
       THEN pc' = "done" /\ UNCHANGED panic
       ELSE pc' = "panic" /\ panic' = "assert_eq"
    /\ UNCHANGED <<build, values, bit_width, packed, mask, unpacked, i>>
    /\ UNCHANGED dfvars

----------------------------------------------------------------------------
(* code/src/bin/double_free.rs *)

\* The address Box::new(Cell {..}) returns
CellAddr == "cell_alloc"

\* The statements of main, in order; the locals are dropped at the closing
\* brace in the reverse order of their declaration (raw and ptr are Copy and
\* have no drop glue; cell was moved into Box::into_raw)
Program ==
    << <<"box_new", "cell">>, <<"into_raw", "cell">>, <<"handles", "raw">>,
       <<"from_raw", "cell2">>, <<"from_raw", "cell3">>, <<"from_raw", "cell4">>,
       <<"print", "cell2">>, <<"print", "cell3">>, <<"print", "cell4">>,
       <<"drop", "cell4">>, <<"drop", "cell3">>, <<"drop", "cell2">>,
       <<"drop", "notified">>, <<"drop", "task">> >>

Done == <<"done", "main">>

Aborted == <<"aborted", "main">>

Off == <<"off", "main">>

\* The statement after p
After(p) ==
    LET k == CHOOSE j \in 1..Len(Program) : Program[j] = p
    IN  IF k = Len(Program) THEN Done ELSE Program[k + 1]

\* f without the key v
Without(f, v) == [k \in (DOMAIN f) \ {v} |-> f[k]]

\* f with the key v set to x
With(f, v, x) == [k \in (DOMAIN f) \cup {v} |-> IF k = v THEN x ELSE f[k]]

NoVars == [k \in {} |-> CellAddr]

InitDoubleFree ==
    /\ dfpc = Program[1]
    /\ heap = "none"
    /\ ptr = "null"
    /\ handles = NoVars
    /\ boxes = NoVars
    /\ frees = << >>
    /\ stale = {}
    /\ out = << >>

\* let cell = Box::new(Cell { a: Header { a: 1 }, b: 2, c: 3 });
BoxNew ==
    /\ dfpc[1] = "box_new"
    /\ heap' = "live"
    /\ boxes' = With(boxes, dfpc[2], CellAddr)
    /\ dfpc' = After(dfpc)
    /\ UNCHANGED <<ptr, handles, frees, stale, out>>
    /\ UNCHANGED bpvars

\* let ptr = Box::into_raw(cell); let ptr = NonNull::new_unchecked(ptr.cast());
\* the Box gives up the allocation without freeing it
IntoRaw ==
    /\ dfpc[1] = "into_raw"
    /\ ptr' = boxes[dfpc[2]]
    /\ boxes' = Without(boxes, dfpc[2])
    /\ dfpc' = After(dfpc)
    /\ UNCHANGED <<heap, handles, frees, stale, out>>
    /\ UNCHANGED bpvars

\* let raw = RawTask { a: ptr }; let task = Task { raw };
\* let notified = Notified(Task { raw });   (RawTask is Copy)
MakeHandles ==
    /\ dfpc[1] = "handles"
    /\ handles' = With(With(handles, "task", ptr), "notified", ptr)
    /\ dfpc' = After(dfpc)
    /\ UNCHANGED <<heap, ptr, boxes, frees, stale, out>>
    /\ UNCHANGED bpvars

\* The pointer each Box::from_raw is given: raw.a, task.raw.a, notified.0.raw.a
FromRawSource(b) ==
    CASE b = "cell2" -> ptr
      [] b = "cell3" -> handles["task"]
      [] b = "cell4" -> handles["notified"]

\* let cellN = unsafe { Box::from_raw(.. as *mut Cell) };
FromRaw ==
    /\ dfpc[1] = "from_raw"
    /\ boxes' = With(boxes, dfpc[2], FromRawSource(dfpc[2]))
    /\ dfpc' = After(dfpc)
    /\ UNCHANGED <<heap, ptr, handles, frees, stale, out>>
    /\ UNCHANGED bpvars

\* println!("{:#?}", cellN);   a read through the Box
PrintCell ==
    /\ dfpc[1] = "print"
    /\ out' = Append(out, "Cell { a: Header { a: 1 }, b: 2, c: 3 }")
    /\ stale' = IF heap = "live" THEN stale ELSE stale \cup {dfpc[2]}
    /\ dfpc' = After(dfpc)
    /\ UNCHANGED <<heap, ptr, handles, boxes, frees>>
    /\ UNCHANGED bpvars

\* The drop glue of Box<Cell> on a live allocation: Cell::drop, then dealloc
DropBox ==
    /\ dfpc[1] = "drop"
    /\ dfpc[2] \in DOMAIN boxes
    /\ heap = "live"
    /\ out' = Append(out, "Cell dropped")
    /\ heap' = "freed"
    /\ frees' = Append(frees, dfpc[2])
    /\ boxes' = Without(boxes, dfpc[2])
    /\ dfpc' = After(dfpc)
    /\ UNCHANGED <<ptr, handles, stale>>
    /\ UNCHANGED bpvars

\* The same drop glue on the allocation already freed: undefined behaviour.
\* One outcome: the allocator does not notice and main goes on
DropBoxStale ==
    /\ dfpc[1] = "drop"
    /\ dfpc[2] \in DOMAIN boxes
    /\ heap = "freed"
    /\ out' = Append(out, "Cell dropped")
    /\ frees' = Append(frees, dfpc[2])
    /\ stale' = stale \cup {dfpc[2]}
    /\ boxes' = Without(boxes, dfpc[2])
    /\ dfpc' = After(dfpc)
    /\ UNCHANGED <<heap, ptr, handles>>
    /\ UNCHANGED bpvars

\* The other outcome: the allocator detects the double free (or the process
\* faults) and the process is killed inside dealloc
DropBoxAbort ==
    /\ dfpc[1] = "drop"
    /\ dfpc[2] \in DOMAIN boxes
    /\ heap = "freed"
    /\ out' = Append(out, "Cell dropped")
    /\ frees' = Append(frees, dfpc[2])
    /\ stale' = stale \cup {dfpc[2]}
    /\ dfpc' = Aborted
    /\ UNCHANGED <<heap, ptr, handles, boxes>>
    /\ UNCHANGED bpvars

\* A Task whose drop releases the allocation its raw pointer names
DropHandleFreeing ==
    /\ dfpc[1] = "drop"
    /\ dfpc[2] \in DOMAIN handles
    /\ out' = Append(out, "task dropped")
    /\ handles' = Without(handles, dfpc[2])
    /\ frees' = Append(frees, dfpc[2])
    /\ stale' = IF heap = "live" THEN stale ELSE stale \cup {dfpc[2]}
    /\ heap' = "freed"
    /\ dfpc' = After(dfpc)
    /\ UNCHANGED <<ptr, boxes>>
    /\ UNCHANGED bpvars

\* Drop for Task (also run for the Task inside Notified): prints, frees
\* nothing; RawTask is Copy and holds a NonNull, which owns nothing
DropHandle ==
    /\ dfpc[1] = "drop"
    /\ dfpc[2] \in DOMAIN handles
    /\ out' = Append(out, "task dropped")
    /\ handles' = Without(handles, dfpc[2])
    /\ dfpc' = After(dfpc)
    /\ UNCHANGED <<heap, ptr, boxes, frees, stale>>
    /\ UNCHANGED bpvars

----------------------------------------------------------------------------

\* A behaviour runs one of the two binaries
Init ==
    \/ /\ InitBitpack
       /\ dfpc = Off
       /\ heap = "none"
       /\ ptr = "null"
       /\ handles = NoVars
       /\ boxes = NoVars
       /\ frees = << >>
       /\ stale = {}
       /\ out = << >>
    \/ /\ InitDoubleFree
       /\ build = "debug"
       /\ values = RefValues
       /\ bit_width = bit_width_lit
       /\ packed = Zero
       /\ mask = Zero
       /\ unpacked = Zeros
       /\ i = 0
       /\ pc = "off"
       /\ panic = "none"

Next ==
    \/ Pack
    \/ MakeMask
    \/ Unpack
    \/ AssertEq
    \/ BoxNew
    \/ IntoRaw
    \/ MakeHandles
    \/ FromRaw
    \/ PrintCell
    \/ DropBox
    \/ DropBoxStale
    \/ DropBoxAbort
    \/ DropHandle

Spec == Init /\ [][Next]_vars

----------------------------------------------------------------------------
(* The packed buffer and the quantities the properties speak of *)

\* The packed output: the one u64 `packed`, as the sequence of its words
words == <<packed>>

\* ceil(n * w / WORD_SIZE)
WordsNeeded(n, w) == (n * w + WORD_SIZE - 1) \div WORD_SIZE

\* value < 2^w
Fits(v, w) == v \subseteq 0..(w - 1)

AllFit == \A k \in 0..(N - 1) : Fits(values[k], bit_width)

\* The packing loop has run all of its iterations
PackDone == pc \in {"mask", "unpack", "assert", "done"}

\* The unpacking loop has run all of its iterations
UnpackDone == pc \in {"assert", "done"}

\* Bit p of the packed buffer, counted from bit 0 of words[1]
StoredBit(p) ==
    /\ p < WORD_SIZE * Len(words)
    /\ (p % WORD_SIZE) \in words[(p \div WORD_SIZE) + 1]

\* Value k crosses the end of the word its first bit lies in
Straddles(k) == (BitCursor(k, bit_width) % WORD_SIZE) + bit_width > WORD_SIZE

\* 3 | 15<<4 | 0<<8 | 7<<12 | 1<<16 | 12<<20 | 4<<24 | 9<<28 = 0x94C170F3
RefPacked == {0, 1, 4, 5, 6, 7, 12, 13, 14, 16, 22, 23, 26, 28, 31}

----------------------------------------------------------------------------
(* Properties of the bit-packing program *)

C2_PackLayout ==
    (AllFit /\ N * bit_width <= WORD_SIZE) =>
        /\ pc # "panic"
        /\ PackDone =>
              /\ \A k \in 0..(N - 1) : \A b \in 0..(bit_width - 1) :
                    (k * bit_width + b \in packed) <=> (b \in values[k])
              /\ packed \subseteq 0..(N * bit_width - 1)
              /\ (values = RefValues /\ bit_width = 4) => packed = RefPacked
        /\ UnpackDone => unpacked = values

C2_Witness ==
    /\ pc = "done"
    /\ values = RefValues
    /\ bit_width = 4
    /\ packed = RefPacked
    /\ unpacked = RefValues

C6_ZeroTail ==
    /\ (pc = "pack" /\ i = 0) => packed = Zero
    /\ (pc \in {"pack", "mask"} /\ \A k \in 0..(i - 1) : Fits(values[k], bit_width))
          => packed \cap ((i * bit_width)..(WORD_SIZE - 1)) = {}
    /\ (PackDone /\ AllFit)
          => packed \cap ((N * bit_width)..(WORD_SIZE - 1)) = {}

C6_Witness ==
    /\ pc = "pack"
    /\ i = 3
    /\ values = RefValues
    /\ bit_width = 4
    /\ packed = {0, 1, 4, 5, 6, 7}

\* The number a machine integer stands for
RECURSIVE ValueOf(_)
ValueOf(v) ==
    IF v = {} THEN 0
    ELSE LET b == CHOOSE x \in v : TRUE
         IN  2^b + ValueOf(v \ {b})

\* max(values)
MaxOf(B) ==
    CHOOSE m \in {ValueOf(B[k]) : k \in DOMAIN B} :
        \A k \in DOMAIN B : ValueOf(B[k]) <= m

\* bit_length(0) = 0, bit_length(v) = floor(log2(v)) + 1, by repeated shifting
RECURSIVE bit_length(_)
bit_length(n) == IF n = 0 THEN 0 ELSE 1 + bit_length(n \div 2)

\* The minimum width every value of the block fits in
select_width(B) == bit_length(MaxOf(B))

----------------------------------------------------------------------------
(* Properties of the double_free program *)

\* C10: ownership in double_free: the three Boxes cell2, cell3, cell4 are
\* rebuilt from copies of the one raw pointer and own the one allocation of
\* Box::new; they are dropped in turn at the end of main, every free after
\* the first acts on already-freed memory, a main that runs to its end has
\* freed the allocation three times (cell4, cell3, cell2), and dropping the
\* Task and the Notified frees nothing.
C10_TripleFree ==
    /\ \A b \in DOMAIN boxes : boxes[b] = CellAddr
    /\ dfpc[1] = "print" =>
          (DOMAIN boxes = {"cell2", "cell3", "cell4"} /\ heap = "live")
    /\ \A k \in 1..Len(frees) :
          /\ frees[k] \in {"cell2", "cell3", "cell4"}
          /\ k >= 2 => frees[k] \in stale
    /\ dfpc = Done =>
          /\ frees = <<"cell4", "cell3", "cell2">>
          /\ stale = {"cell3", "cell2"}
          /\ heap = "freed"

\* C10 as first stated: whichever way main ends, the allocation has been
\* freed three times.
C10_FreedThreeTimes ==
    dfpc \in {Done, Aborted} => Len(frees) = 3

C10_Witness ==
    /\ dfpc = Done
    /\ Len(frees) = 3
    /\ stale = {"cell3", "cell2"}
    /\ out[Len(out)] = "task dropped"

====
